---- MODULE Spec2Model ----
(***************************************************************************)
(* Model of the multi-model cache and transcription orchestration of       *)
(* jbuget/ia-voice-to-text.  Two builds of the service live in the         *)
(* repository and both are modelled, selected by the variable `variant`:   *)
(*   "app"    : src/app.py (module-level cache, lock and registry)         *)
(*   "server" : src/server/** (ModelManager, routes/api.py, main.py)       *)
(* ResponseStore (src/server/services/response_store.py) is modelled by    *)
(* the variables `store` and `heap` and checked under SpecStore; concurrent *)
(* callers of the cache primitives are checked under SpecCache; the        *)
(* construction of the registry and the selection resolver under           *)
(* SpecRegistry; the aggregation of transcribe_audio (src/transcribe.py)   *)
(* under SpecTranscribe.                                                   *)
(***************************************************************************)
EXTENDS Integers, Sequences, FiniteSets, TLC

(***************************************************************************)
(* Bounds of the model.                                                    *)
(***************************************************************************)
NumReqs == 2
NumThreads == 2
MaxCalls == 3
MaxAdds == 3
MaxHistoryBound == 2
MaxSegs == 2

Reqs == 1..NumReqs
Threads == 1..NumThreads

Variants == {"app", "server"}

(***************************************************************************)
(* File system seen at start-up: directory names under the model root and  *)
(* absolute paths.  BaseName is pathlib's Path.name, Resolve is            *)
(* Path.resolve() (normalises "..", identity on an already resolved path). *)
(***************************************************************************)
Names == {"a", "b"}
Paths == {"/m/a", "/m/b", "/x/a"}
NoSel == "<none>"
NoAlias == "<no-alias>"

BaseName(p) ==
  CASE p = "/m/a" -> "a"
    [] p = "/m/b" -> "b"
    [] p = "/x/a" -> "a"
    [] p = "/x/../m/a" -> "a"
    [] p = "/" -> ""
    [] OTHER -> p

\* The working directory of the process is "/x"; "/m/a" and "/x/a" are
\* never symbolic links, so no resolution below depends on the file system.
Resolve(p) ==
  CASE p = "/x/../m/a" -> "/m/a"
    [] p = "a" -> "/x/a"
    [] p = "b" -> "/x/b"
    [] p = "zz" -> "/x/zz"
    [] OTHER -> p

EmptyMap == [x \in {} |-> x]

\* What a directory entry of the model root "/m" can be: a plain file, a
\* directory, or a symbolic link to a directory elsewhere; `target` is what
\* entry.resolve() gives.
RootEntryKinds(n) ==
  IF n = "a"
    THEN { [isDir |-> FALSE, target |-> "/m/a"],
           [isDir |-> TRUE, target |-> "/m/a"] }
    ELSE { [isDir |-> TRUE, target |-> "/m/b"],
           [isDir |-> TRUE, target |-> "/m/a"] }

\* The same, where "/m/b" can also be a link to the directory "/x/a".
LinkedEntryKinds(n) ==
  IF n = "b"
    THEN RootEntryKinds(n) \cup { [isDir |-> TRUE, target |-> "/x/a"] }
    ELSE RootEntryKinds(n)

\* Every entry is of a kind its name can have, and an entry that is_dir()
\* and resolves elsewhere is a link to a directory that exists.
WellFormedFS(fs) ==
  \A n \in DOMAIN fs.entries :
    /\ fs.entries[n] \in LinkedEntryKinds(n)
    /\ (n = "b" /\ fs.entries[n].target = "/m/a") =>
         ("a" \in DOMAIN fs.entries /\ fs.entries["a"].isDir)
    /\ (n = "b" /\ fs.entries[n].target = "/x/a") => fs.ext

\* The file systems considered by the registry operations; `ext` says
\* whether the directory "/x/a", outside the model root, exists.
LinkedFileSystems ==
  { fs \in
      { [rootExists |-> TRUE, entries |-> e, ext |-> x] :
          e \in UNION { [S -> UNION { LinkedEntryKinds(n) : n \in Names }] :
                         S \in SUBSET Names },
          x \in BOOLEAN }
      \cup { [rootExists |-> FALSE, entries |-> EmptyMap, ext |-> x] :
               x \in BOOLEAN } :
      WellFormedFS(fs) }

\* The file systems the running service is started on: those without a
\* link out of the model root.
FileSystems ==
  { fs \in LinkedFileSystems :
      \A n \in DOMAIN fs.entries : fs.entries[n] \in RootEntryKinds(n) }

\* The configured default paths considered (already resolved by Settings /
\* DEFAULT_MODEL_RESOLVED).
DefaultPaths == {"/m/a", "/x/a"}

\* Path(p).is_dir()
IsDir(fs, p) ==
  IF p = "/x/a"
    THEN fs.ext
    ELSE /\ fs.rootExists
         /\ \E n \in DOMAIN fs.entries :
              fs.entries[n] = [isDir |-> TRUE, target |-> p] /\ BaseName(p) = n

\* _discover_local_models / ModelManager._discover_models
Discover(fs) ==
  IF fs.rootExists
    THEN LET dirs == { n \in DOMAIN fs.entries : fs.entries[n].isDir }
         IN  [n \in dirs |-> fs.entries[n].target]
    ELSE EmptyMap

\* dict.setdefault
SetDefault(reg, al, p) ==
  IF al \in DOMAIN reg
    THEN reg
    ELSE [x \in DOMAIN reg \cup {al} |-> IF x = al THEN p ELSE reg[x]]

\* Aliases whose registry path is the configured default path.  The loop
\* of the code returns the first one in directory-iteration order, which
\* the operating system does not fix: any of them can be the default.
DefaultCandidates(reg, dp) ==
  { al \in DOMAIN reg : Resolve(reg[al]) = dp }

SynthAlias(dp) == IF BaseName(dp) = "" THEN "default" ELSE BaseName(dp)

\* The registry after default resolution.
RegistryWithDefault(reg, dp) ==
  IF DefaultCandidates(reg, dp) # {}
    THEN reg
    ELSE SetDefault(reg, SynthAlias(dp), dp)

\* The aliases default resolution can return.
ResolveDefaultAlias(reg, dp) ==
  IF DefaultCandidates(reg, dp) # {}
    THEN DefaultCandidates(reg, dp)
    ELSE { SynthAlias(dp) }

(***************************************************************************)
(* Cache keys and bundles.                                                 *)
(***************************************************************************)
DeviceOption == "auto"
ComputeTypeOption == "<unset>"

\* _model_key / ModelManager._key
ModelKey(p) == << Resolve(p), DeviceOption, ComputeTypeOption >>

Keys == { ModelKey(p) : p \in Paths }

\* create_model's result for the n-th invocation on path p: the model
\* handle (a fresh object per invocation), the device and the compute type.
NewBundle(p, n) ==
  [model |-> << p, n >>, device |-> "cpu", compute |-> "float32"]

NoBundle == [model |-> << "<none>", 0 >>, device |-> "<none>", compute |-> "<none>"]

\* Mutant of CachePut: a cache of one entry, the new bundle evicts the rest.
CachePutEvicting(c, k, b) == [x \in {k} |-> b]

\* dict insertion: _model_cache[key] = bundle
CachePut(c, k, b) ==
  [x \in DOMAIN c \cup {k} |-> IF x = k THEN b ELSE c[x]]

\* _model_cache.get(key)
CacheGet(c, k) == IF k \in DOMAIN c THEN c[k] ELSE NoBundle

VARIABLES
  variant,       \* which build runs
  registry,      \* MODEL_REGISTRY / ModelManager._registry : alias -> path
  defaultAlias,  \* DEFAULT_MODEL_ALIAS / ModelManager._default_alias
  defaultPath,   \* DEFAULT_MODEL_RESOLVED / settings.default_model_path
  cache,         \* _model_cache / ModelManager._cache : key -> bundle
  lock,          \* _model_lock / ModelManager._lock : holder or "free"
  loads,         \* history: create_model invocations per key
  fails,         \* history: create_model invocations that raised, per key
  startup,       \* load_models / load_all : position, attempted, errors, warned
  req,           \* per transcription request: position and locals
  loop,          \* request blocking the event loop thread, or 0
  health,        \* the health handler: position and last response
  thr,           \* SpecCache: threads calling the cache primitives directly
  store,         \* ResponseStore: _latest, _history, _max_history
  heap,          \* the payload dicts handed to ResponseStore.add, by identity
  selection,     \* the last call of the selection resolver and its outcome
  transcript,    \* transcribe_audio: the raw segments and the aggregated result
  defaultIsDir   \* whether the configured default path is_dir() at start-up

vars == << variant, registry, defaultAlias, defaultPath, cache, lock, loads,
           fails, startup, req, loop, health, thr, store, heap, selection,
           transcript, defaultIsDir >>


Free == << "free", 0 >>
ReqThread(r) == << "req", r >>
CallThread(t) == << "thr", t >>

ReqInit ==
  [pc |-> "new", sel |-> NoSel, alias |-> NoAlias, path |-> "",
   bundle |-> NoBundle, tmp |-> FALSE, created |-> FALSE, status |-> 0,
   detail |-> {}, loadCalls |-> 0, inferCalls |-> 0, inferOk |-> FALSE,
   inserted |-> FALSE, written |-> FALSE, running |-> FALSE]

HealthInit ==
  [pc |-> "idle", status |-> "", models |-> EmptyMap, seen |-> {},
   device |-> "", compute |-> "", raised |-> FALSE]

StartupInit ==
  [pc |-> "bulk", attempted |-> {}, errors |-> {}, warned |-> {},
   absentAtVerify |-> FALSE]

ThreadInit ==
  [pc |-> "idle", op |-> "", path |-> "", ret |-> NoBundle, raised |-> FALSE,
   calls |-> 0, contended |-> FALSE]

StoreInit(m) ==
  [latest |-> << >>, history |-> << >>, max |-> m, added |-> << >>,
   out |-> [op |-> "", val |-> << >>], lock |-> 0]

\* The dict objects callers hand to ResponseStore.add, named by identity.
Payloads == {"p", "q"}

\* The content of a payload dict: `top` is the value under one of its own
\* keys, `deep` a value inside a mutable object the dict refers to (a list
\* or a dict under one of its keys).
HeapInit == [p \in Payloads |-> [top |-> 0, deep |-> 0]]

\* No call of the selection resolver yet.
SelectionInit ==
  [called |-> FALSE, sel |-> NoSel, raised |-> FALSE, alias |-> NoAlias,
   path |-> ""]

\* No call of transcribe_audio yet.
TranscriptInit ==
  [pc |-> "idle", raw |-> << >>, wordTs |-> FALSE, i |-> 1, lines |-> << >>,
   segments |-> << >>, wordCount |-> 0, charCount |-> 0, text |-> << >>,
   segmentCount |-> 0]

ZeroCount == [k \in Keys |-> 0]

\* Module start-up of src/app.py and ModelManager.__init__: the registry is
\* discovered, the default path must be a directory (RuntimeError if not),
\* the default alias is resolved, the cache is empty.
InitService ==
  /\ variant \in Variants
  /\ \E fs \in FileSystems, dp \in DefaultPaths :
       /\ defaultPath = dp
       /\ defaultIsDir = IsDir(fs, dp)
       /\ IF IsDir(fs, dp)
            THEN /\ registry = RegistryWithDefault(Discover(fs), dp)
                 /\ defaultAlias \in ResolveDefaultAlias(Discover(fs), dp)
                 /\ startup = StartupInit
            ELSE /\ registry = Discover(fs)
                 /\ defaultAlias = NoAlias
                 /\ startup = [StartupInit EXCEPT !.pc = "config_error"]
  /\ cache = EmptyMap
  /\ lock = Free
  /\ loads = ZeroCount
  /\ fails = ZeroCount
  /\ loop = 0
  /\ health = HealthInit

Init ==
  /\ InitService
  /\ req = [r \in Reqs |-> ReqInit]
  /\ thr = [t \in Threads |-> ThreadInit]
  /\ store = StoreInit(0)
  /\ heap = HeapInit
  /\ selection = SelectionInit
  /\ transcript = TranscriptInit

(***************************************************************************)
(* The check-and-insert of _ensure_model_loaded / ModelManager._load_model *)
(***************************************************************************)
\* Mutant of NeedsLoad: the membership test is dropped, every call loads.
NeedsLoadUnchecked(c, p) == ModelKey(p) = ModelKey(p) \/ c = c

\* `if key not in _model_cache`
NeedsLoad(c, p) == ModelKey(p) \notin DOMAIN c

Inc(f, k) == [f EXCEPT ![k] = @ + 1]

\* The state change of one whole call of _ensure_model_loaded(p) /
\* _load_model(p) by a caller that finds the lock free, where `ok` says
\* whether create_model returns (TRUE) or raises (FALSE) if it is invoked.
LoadCall(p, ok) ==
  LET k == ModelKey(p) IN
  IF NeedsLoad(cache, p)
    THEN /\ loads' = Inc(loads, k)
         /\ IF ok
              THEN /\ cache' = CachePut(cache, k, NewBundle(p, loads[k] + 1))
                   /\ fails' = fails
              ELSE /\ cache' = cache
                   /\ fails' = Inc(fails, k)
    ELSE UNCHANGED << cache, loads, fails >>

\* Whether that call raises.
LoadRaises(p, ok) == NeedsLoad(cache, p) /\ ~ok

(***************************************************************************)
(* Start-up: load_models (app) and ModelManager.load_all (server).         *)
(***************************************************************************)
\* One iteration of `for alias, path in registry.items()`.
BulkLoad(al, ok) ==
  /\ startup.pc = "bulk"
  /\ al \in DOMAIN registry \ startup.attempted
  /\ lock = Free
  /\ LoadCall(registry[al], ok)
  /\ startup' = [startup EXCEPT
       !.attempted = @ \cup {al},
       !.errors = IF LoadRaises(registry[al], ok) THEN @ \cup {al} ELSE @]
  /\ UNCHANGED << variant, registry, defaultAlias, defaultPath, lock, req,
                  loop, health, thr, store, heap,
                  selection, transcript,
                  defaultIsDir >>

\* Mutant of BulkPassEnded: the loop stops at the first load that raises.
BulkPassEndedOnError ==
  startup.attempted = DOMAIN registry \/ startup.errors # {}

\* The `for` loop has visited every item of the registry.
BulkPassEnded == startup.attempted = DOMAIN registry

\* Mutant of VerifyApp: the default model is not looked up again.
VerifyAppUnchecked ==
  /\ variant = "app"
  /\ startup.pc = "bulk"
  /\ BulkPassEnded
  /\ lock = Free
  /\ startup' = [startup EXCEPT !.pc = "ok", !.warned = startup.errors]
  /\ UNCHANGED << variant, registry, defaultAlias, defaultPath, cache, lock,
                  loads, fails, req, loop, health, thr, store, heap,
                  selection, transcript,
                  defaultIsDir >>

\* app: _get_cached_model on the default path, RuntimeError if absent,
\* then the warnings.
VerifyApp ==
  /\ variant = "app"
  /\ startup.pc = "bulk"
  /\ BulkPassEnded
  /\ lock = Free
  /\ IF CacheGet(cache, ModelKey(registry[defaultAlias])) = NoBundle
       THEN startup' = [startup EXCEPT !.pc = "failed",
                                       !.absentAtVerify = TRUE]
       ELSE startup' = [startup EXCEPT !.pc = "ok", !.warned = startup.errors]
  /\ UNCHANGED << variant, registry, defaultAlias, defaultPath, cache, lock,
                  loads, fails, req, loop, health, thr, store, heap,
                  selection, transcript,
                  defaultIsDir >>

\* server: the warnings, then get_model(default alias), which loads.
VerifyServer(ok) ==
  /\ variant = "server"
  /\ startup.pc = "bulk"
  /\ BulkPassEnded
  /\ lock = Free
  /\ LoadCall(registry[defaultAlias], ok)
  /\ startup' = [startup EXCEPT
       !.pc = IF LoadRaises(registry[defaultAlias], ok) THEN "failed" ELSE "ok",
       !.warned = startup.errors,
       !.absentAtVerify = NeedsLoad(cache, registry[defaultAlias])]
  /\ UNCHANGED << variant, registry, defaultAlias, defaultPath, lock, req,
                  loop, health, thr, store, heap,
                  selection, transcript,
                  defaultIsDir >>

\* Mutant of Serving: handlers also run when construction raised.
ServingUnconstructed == startup.pc \in {"ok", "config_error"}

\* Handlers run once the application object exists and start-up returned.
Serving == startup.pc = "ok"


(***************************************************************************)
(* Selection: _resolve_model_selection / ModelManager._resolve_selection.  *)
(***************************************************************************)
Selectors == {NoSel, "b", "zz"}

\* Mutant of ResolveSelection: the selector is tried as a path before it
\* is tried as an alias.
ResolveSelectionPathFirst(reg, dflt, sel) ==
  IF sel = NoSel
    THEN { << dflt, reg[dflt] >> }
    ELSE IF \E x \in DOMAIN reg : Resolve(reg[x]) = Resolve(sel)
      THEN { << al, reg[al] >> : al \in
               { x \in DOMAIN reg : Resolve(reg[x]) = Resolve(sel) } }
      ELSE IF sel \in DOMAIN reg THEN { << sel, reg[sel] >> } ELSE {}

\* The (alias, path) pairs the resolution can return; empty when it raises
\* KeyError / ModelNotFoundError.  A path selector that several aliases
\* match returns the first in iteration order, which is not fixed.
ResolveSelection(reg, dflt, sel) ==
  IF sel = NoSel
    THEN { << dflt, reg[dflt] >> }
    ELSE IF sel \in DOMAIN reg
      THEN { << sel, reg[sel] >> }
      ELSE { << al, reg[al] >> : al \in
               { x \in DOMAIN reg : Resolve(reg[x]) = Resolve(sel) } }

\* Mutant of AvailableAliases: the aliases found under the model root, taken
\* before the default alias was inserted.
AvailableAliasesDiscovered(reg) == { al \in DOMAIN reg : reg[al] # "/x/a" }

\* AVAILABLE_MODEL_NAMES / available_aliases(): the aliases of the registry.
AvailableAliases(reg) == DOMAIN reg

(***************************************************************************)
(* A transcription request: transcribe_endpoint.                           *)
(***************************************************************************)
Terminal == {"notfound", "notready", "done", "failed"}

\* Requests are numbered in the order the dispatcher starts their handlers.
NextToStart(r) == req[r].pc = "new" /\ \A q \in Reqs : q < r => req[q].pc # "new"

\* Path.unlink(missing_ok=...): whether it raises FileNotFoundError.
UnlinkMissingOk == TRUE
UnlinkRaises(exists) == ~exists /\ ~UnlinkMissingOk

\* app: resolve, _get_cached_model, NamedTemporaryFile, up to the first
\* await (file.read()).
TranscribeApp(r, sel) ==
  /\ variant = "app"
  /\ Serving
  /\ NextToStart(r)
  /\ loop = 0
  /\ IF ResolveSelection(registry, defaultAlias, sel) = {}
       THEN req' = [req EXCEPT ![r] = [@ EXCEPT
              !.pc = "notfound", !.sel = sel, !.status = 400,
              !.detail = AvailableAliases(registry)]]
       ELSE \E ap \in ResolveSelection(registry, defaultAlias, sel) :
              /\ lock = Free
              /\ IF CacheGet(cache, ModelKey(ap[2])) = NoBundle
                   THEN req' = [req EXCEPT ![r] = [@ EXCEPT
                          !.pc = "notready", !.sel = sel, !.alias = ap[1],
                          !.path = ap[2], !.status = 503,
                          !.detail = {ap[1]}]]
                   ELSE req' = [req EXCEPT ![r] = [@ EXCEPT
                          !.pc = "reading", !.sel = sel, !.alias = ap[1],
                          !.path = ap[2],
                          !.bundle = CacheGet(cache, ModelKey(ap[2])),
                          !.tmp = TRUE, !.created = TRUE]]
  /\ UNCHANGED << variant, registry, defaultAlias, defaultPath, cache, lock,
                  loads, fails, startup, loop, health, thr, store, heap,
                  selection, transcript,
                  defaultIsDir >>

\* server: get_model on the event loop thread.  When the key is cached the
\* handler goes on to NamedTemporaryFile and the first await; when it is
\* not, create_model starts, on the event loop thread and under the lock.
TranscribeServer(r, sel) ==
  /\ variant = "server"
  /\ Serving
  /\ NextToStart(r)
  /\ loop = 0
  /\ IF ResolveSelection(registry, defaultAlias, sel) = {}
       THEN /\ req' = [req EXCEPT ![r] = [@ EXCEPT
                 !.pc = "notfound", !.sel = sel, !.status = 400,
                 !.detail = AvailableAliases(registry)]]
            /\ UNCHANGED << lock, loads, loop >>
       ELSE \E ap \in ResolveSelection(registry, defaultAlias, sel) :
              /\ lock = Free
              /\ IF NeedsLoad(cache, ap[2])
                   THEN /\ req' = [req EXCEPT ![r] = [@ EXCEPT
                             !.pc = "loading", !.sel = sel, !.alias = ap[1],
                             !.path = ap[2], !.loadCalls = @ + 1]]
                        /\ lock' = ReqThread(r)
                        /\ loop' = r
                        /\ loads' = Inc(loads, ModelKey(ap[2]))
                   ELSE /\ req' = [req EXCEPT ![r] = [@ EXCEPT
                             !.pc = "reading", !.sel = sel, !.alias = ap[1],
                             !.path = ap[2],
                             !.bundle = cache[ModelKey(ap[2])],
                             !.tmp = TRUE, !.created = TRUE]]
                        /\ UNCHANGED << lock, loads, loop >>
  /\ UNCHANGED << variant, registry, defaultAlias, defaultPath, cache, fails,
                  startup, health, thr, store, heap,
                  selection, transcript,
                  defaultIsDir >>

\* Mutant of ReqLoadFinish: the lock is kept after a load that succeeded.
ReqLoadFinishHolding(r, ok) ==
  /\ req[r].pc = "loading"
  /\ lock = ReqThread(r)
  /\ LET k == ModelKey(req[r].path)
         b == NewBundle(req[r].path, loads[k])
     IN IF ok
          THEN /\ cache' = CachePut(cache, k, b)
               /\ fails' = fails
               /\ lock' = lock
               /\ req' = [req EXCEPT ![r] = [@ EXCEPT
                    !.pc = "reading", !.bundle = b, !.tmp = TRUE,
                    !.created = TRUE, !.inserted = TRUE]]
          ELSE /\ cache' = cache
               /\ fails' = Inc(fails, k)
               /\ lock' = Free
               /\ req' = [req EXCEPT ![r] = [@ EXCEPT
                    !.pc = "failed", !.status = 500]]
  /\ loop' = 0
  /\ UNCHANGED << variant, registry, defaultAlias, defaultPath, loads,
                  startup, health, thr, store, heap,
                  selection, transcript,
                  defaultIsDir >>

\* server: create_model returns or raises inside get_model.
ReqLoadFinish(r, ok) ==
  /\ req[r].pc = "loading"
  /\ lock = ReqThread(r)
  /\ LET k == ModelKey(req[r].path)
         b == NewBundle(req[r].path, loads[k])
     IN IF ok
          THEN /\ cache' = CachePut(cache, k, b)
               /\ fails' = fails
               /\ req' = [req EXCEPT ![r] = [@ EXCEPT
                    !.pc = "reading", !.bundle = b, !.tmp = TRUE,
                    !.created = TRUE, !.inserted = TRUE]]
          ELSE /\ cache' = cache
               /\ fails' = Inc(fails, k)
               /\ req' = [req EXCEPT ![r] = [@ EXCEPT
                    !.pc = "failed", !.status = 500]]
  /\ lock' = Free
  /\ loop' = 0
  /\ UNCHANGED << variant, registry, defaultAlias, defaultPath, loads,
                  startup, health, thr, store, heap,
                  selection, transcript,
                  defaultIsDir >>

\* Mutant of ReqUploadRead: the inference is handed to a worker whether or
\* not the upload was read and written.
ReqUploadReadUnchecked(r, ok) ==
  /\ req[r].pc = "reading"
  /\ loop = 0
  /\ req' = [req EXCEPT ![r] = [@ EXCEPT
       !.pc = "transcribing", !.written = ok, !.running = TRUE,
       !.inferCalls = @ + 1]]
  /\ UNCHANGED << variant, registry, defaultAlias, defaultPath, cache, lock,
                  loads, fails, startup, loop, health, thr, store, heap,
                  selection, transcript, defaultIsDir >>

\* `tmp.write(await file.read())` resumes: the body was read and written and
\* the inference is handed to a worker thread (asyncio.to_thread), or the
\* read or the write raised.
ReqUploadRead(r, ok) ==
  /\ req[r].pc = "reading"
  /\ loop = 0
  /\ IF ok
       THEN req' = [req EXCEPT ![r] = [@ EXCEPT
              !.pc = "transcribing", !.written = TRUE, !.running = TRUE,
              !.inferCalls = @ + 1]]
       ELSE req' = [req EXCEPT ![r] = [@ EXCEPT
              !.pc = "failed", !.status = 500]]
  /\ UNCHANGED << variant, registry, defaultAlias, defaultPath, cache, lock,
                  loads, fails, startup, loop, health, thr, store, heap,
                  selection, transcript,
                  defaultIsDir >>

\* Mutant of WorkerFinish: an exception of the inference is dropped on the
\* worker thread and the awaiting handler is never resumed.
WorkerFinishSwallow(r, ok) ==
  /\ req[r].running
  /\ IF req[r].pc = "transcribing" /\ ok
       THEN req' = [req EXCEPT ![r] = [@ EXCEPT
              !.pc = "inferred", !.running = FALSE, !.inferOk = ok]]
       ELSE req' = [req EXCEPT ![r] = [@ EXCEPT !.running = FALSE]]
  /\ UNCHANGED << variant, registry, defaultAlias, defaultPath, cache, lock,
                  loads, fails, startup, loop, health, thr, store, heap,
                  selection, transcript, defaultIsDir >>

\* The worker thread: transcribe_audio returns or raises.  The handler
\* that awaits it is woken; when that handler was cancelled, the outcome
\* goes to nobody.
WorkerFinish(r, ok) ==
  /\ req[r].running
  /\ IF req[r].pc = "transcribing"
       THEN req' = [req EXCEPT ![r] = [@ EXCEPT
              !.pc = "inferred", !.running = FALSE, !.inferOk = ok]]
       ELSE req' = [req EXCEPT ![r] = [@ EXCEPT !.running = FALSE]]
  /\ UNCHANGED << variant, registry, defaultAlias, defaultPath, cache, lock,
                  loads, fails, startup, loop, health, thr, store, heap,
                  selection, transcript,
                  defaultIsDir >>

\* The task running the handler is cancelled while it awaits (the server
\* shuts down, the connection is aborted): CancelledError is raised at the
\* `await`.  At `await file.read()` the `with` block closes the staged file
\* and nothing unlinks it; at `await asyncio.to_thread(...)` the `finally`
\* unlinks it, and the worker thread, which cannot be cancelled, runs on.
ReqCancel(r) ==
  /\ req[r].pc \in {"reading", "transcribing"}
  /\ loop = 0
  /\ req' = [req EXCEPT ![r] = [@ EXCEPT
       !.pc = "cancelled",
       !.tmp = IF req[r].pc = "transcribing" THEN FALSE ELSE @]]
  /\ UNCHANGED << variant, registry, defaultAlias, defaultPath, cache, lock,
                  loads, fails, startup, loop, health, thr, store, heap,
                  selection, transcript, defaultIsDir >>

\* Something outside the service removes the staged file.
EnvRemoveTmp(r) ==
  /\ req[r].pc = "inferred"
  /\ req[r].tmp
  /\ req' = [req EXCEPT ![r] = [@ EXCEPT !.tmp = FALSE]]
  /\ UNCHANGED << variant, registry, defaultAlias, defaultPath, cache, lock,
                  loads, fails, startup, loop, health, thr, store, heap,
                  selection, transcript,
                  defaultIsDir >>

\* Mutant of ReqFinish: an inference that raised is handed to a worker
\* again.
ReqFinishRetry(r) ==
  /\ req[r].pc = "inferred"
  /\ loop = 0
  /\ req' = [req EXCEPT ![r] =
       IF req[r].inferOk
         THEN [@ EXCEPT !.tmp = FALSE, !.pc = "done", !.status = 200]
         ELSE [@ EXCEPT !.pc = "transcribing", !.running = TRUE,
                        !.inferCalls = @ + 1]]
  /\ UNCHANGED << variant, registry, defaultAlias, defaultPath, cache, lock,
                  loads, fails, startup, loop, health, thr, store, heap,
                  selection, transcript, defaultIsDir >>

\* The handler resumes after the worker: `finally: tmp_path.unlink(...)`,
\* then the response or the propagated exception.
ReqFinish(r) ==
  /\ req[r].pc = "inferred"
  /\ loop = 0
  /\ req' = [req EXCEPT ![r] = [@ EXCEPT
       !.tmp = FALSE,
       !.pc = IF req[r].inferOk /\ ~UnlinkRaises(req[r].tmp)
                THEN "done" ELSE "failed",
       !.status = IF req[r].inferOk /\ ~UnlinkRaises(req[r].tmp)
                    THEN 200 ELSE 500]]
  /\ UNCHANGED << variant, registry, defaultAlias, defaultPath, cache, lock,
                  loads, fails, startup, loop, health, thr, store, heap,
                  selection, transcript,
                  defaultIsDir >>


(***************************************************************************)
(* The health endpoint: health_check (app) and health (server).            *)
(***************************************************************************)
\* Mutant of ListModels: an alias counts as loaded once it is registered.
ListModelsRegistered(reg, c) ==
  [al \in DOMAIN reg |-> al \in DOMAIN reg \/ c # c]

\* The "loaded" flag per alias: `_model_key(path) in _model_cache`.
ListModels(reg, c) ==
  [al \in DOMAIN reg |-> ModelKey(reg[al]) \in DOMAIN c]

HealthStatus(ready) == IF ready THEN "ok" ELSE "loading"

\* app: one synchronous function reading the cache without the lock.
HealthApp ==
  /\ variant = "app"
  /\ Serving
  /\ LET bundle == CacheGet(cache, ModelKey(registry[defaultAlias]))
     IN health' = [pc |-> "idle",
                   status |-> HealthStatus(bundle # NoBundle),
                   models |-> ListModels(registry, cache),
                   seen |-> DOMAIN cache,
                   device |-> bundle.device,
                   compute |-> bundle.compute,
                   raised |-> FALSE]
  /\ UNCHANGED << variant, registry, defaultAlias, defaultPath, cache, lock,
                  loads, fails, startup, req, loop, thr, store, heap,
                  selection, transcript,
                  defaultIsDir >>

\* server: list_models(); the response follows at once when the default
\* model is not loaded, otherwise get_model(default_alias) comes next.
HealthList ==
  /\ variant = "server"
  /\ Serving
  /\ health.pc = "idle"
  /\ LET lm == ListModels(registry, cache)
     IN health' = [pc |-> IF lm[defaultAlias] THEN "listed" ELSE "idle",
                   status |-> HealthStatus(lm[defaultAlias]),
                   models |-> lm,
                   seen |-> DOMAIN cache,
                   device |-> NoBundle.device,
                   compute |-> NoBundle.compute,
                   raised |-> FALSE]
  /\ UNCHANGED << variant, registry, defaultAlias, defaultPath, cache, lock,
                  loads, fails, startup, req, loop, thr, store, heap,
                  selection, transcript,
                  defaultIsDir >>

\* server: get_model(default_alias) under the lock, then the response.
HealthGet(ok) ==
  /\ variant = "server"
  /\ health.pc = "listed"
  /\ lock = Free
  /\ LoadCall(registry[defaultAlias], ok)
  /\ health' = [health EXCEPT
       !.pc = "idle",
       !.raised = LoadRaises(registry[defaultAlias], ok),
       !.device = CacheGet(cache', ModelKey(registry[defaultAlias])).device,
       !.compute = CacheGet(cache', ModelKey(registry[defaultAlias])).compute]
  /\ UNCHANGED << variant, registry, defaultAlias, defaultPath, lock, startup,
                  req, loop, thr, store, heap,
                  selection, transcript,
                  defaultIsDir >>

(***************************************************************************)
(* The service: start-up, then requests and health checks in any order.    *)
(***************************************************************************)
Next ==
  \/ \E al \in Names, ok \in BOOLEAN : BulkLoad(al, ok)
  \/ VerifyApp
  \/ \E ok \in BOOLEAN : VerifyServer(ok)
  \/ \E r \in Reqs, sel \in Selectors : TranscribeApp(r, sel)
  \/ \E r \in Reqs, sel \in Selectors : TranscribeServer(r, sel)
  \/ \E r \in Reqs, ok \in BOOLEAN : ReqLoadFinish(r, ok)
  \/ \E r \in Reqs, ok \in BOOLEAN : ReqUploadRead(r, ok)
  \/ \E r \in Reqs, ok \in BOOLEAN : WorkerFinish(r, ok)
  \/ \E r \in Reqs : EnvRemoveTmp(r)
  \/ \E r \in Reqs : ReqFinish(r)
  \/ HealthApp
  \/ HealthList
  \/ \E ok \in BOOLEAN : HealthGet(ok)

Spec == Init /\ [][Next]_vars

\* A request that has started goes on: create_model and the inference
\* return or raise, and the event loop runs a handler that stays ready.
ReqProgress(r) ==
  /\ WF_vars(\E ok \in BOOLEAN : ReqLoadFinish(r, ok))
  /\ WF_vars(\E ok \in BOOLEAN : ReqUploadRead(r, ok))
  /\ WF_vars(\E ok \in BOOLEAN : WorkerFinish(r, ok))
  /\ WF_vars(ReqFinish(r))

\* The deployment the liveness of requests is checked on: the model root
\* holds the directories "a" and "b", and "a" is the configured default.
DeployedFS ==
  [rootExists |-> TRUE,
   entries |-> [n \in Names |->
                  [isDir |-> TRUE,
                   target |-> IF n = "a" THEN "/m/a" ELSE "/m/b"]],
   ext |-> FALSE]

InitLive ==
  /\ variant \in Variants
  /\ defaultPath = "/m/a"
  /\ defaultIsDir = IsDir(DeployedFS, "/m/a")
  /\ registry = RegistryWithDefault(Discover(DeployedFS), "/m/a")
  /\ defaultAlias \in ResolveDefaultAlias(Discover(DeployedFS), "/m/a")
  /\ startup = StartupInit
  /\ cache = EmptyMap
  /\ lock = Free
  /\ loads = ZeroCount
  /\ fails = ZeroCount
  /\ loop = 0
  /\ health = HealthInit
  /\ req = [r \in Reqs |-> ReqInit]
  /\ thr = [t \in Threads |-> ThreadInit]
  /\ store = StoreInit(0)
  /\ heap = HeapInit
  /\ selection = SelectionInit
  /\ transcript = TranscriptInit

SpecLive == InitLive /\ [][Next]_vars /\ \A r \in Reqs : ReqProgress(r)

\* The service where, in addition, the task of a handler can be cancelled
\* while it awaits.
NextCancel ==
  \/ Next
  \/ \E r \in Reqs : ReqCancel(r)

SpecCancel == Init /\ [][NextCancel]_vars


(***************************************************************************)
(* Threads calling the cache primitives directly and concurrently:         *)
(* _ensure_model_loaded and _get_cached_model (app), _load_model (server). *)
(* Each step between two lock operations is one action.                    *)
(***************************************************************************)
CallPaths == {"/m/a", "/m/b"}

CacheOps == {"load", "get"}

\* Calls made so far by the threads 1..n.
RECURSIVE CallsMade(_)
CallsMade(n) == IF n = 0 THEN 0 ELSE thr[n].calls + CallsMade(n - 1)

\* A thread enters _ensure_model_loaded / _load_model ("load") or
\* _get_cached_model ("get", app only) and reaches `with lock`.
CallBegin(t, op, p) ==
  /\ thr[t].pc = "idle"
  /\ CallsMade(NumThreads) < MaxCalls
  /\ op = "get" => variant = "app"
  /\ thr' = [thr EXCEPT ![t] =
       [pc |-> "wait", op |-> op, path |-> p, ret |-> NoBundle,
        raised |-> FALSE, calls |-> thr[t].calls + 1,
        contended |-> lock # Free]]
  /\ UNCHANGED << variant, registry, defaultAlias, defaultPath, cache, lock,
                  loads, fails, startup, req, loop, health, store, heap,
                  selection, transcript,
                  defaultIsDir >>

\* "load": the lock is acquired and the key looked up.  Present: app returns
\* the entry inside the `with`, server leaves the `with` and returns
\* afterwards.  Absent: create_model starts, the lock stays held.
LoadAcquire(t) ==
  /\ thr[t].pc = "wait"
  /\ thr[t].op = "load"
  /\ lock = Free
  /\ IF NeedsLoad(cache, thr[t].path)
       THEN /\ lock' = CallThread(t)
            /\ loads' = Inc(loads, ModelKey(thr[t].path))
            /\ thr' = [thr EXCEPT ![t] = [@ EXCEPT !.pc = "creating"]]
       ELSE /\ UNCHANGED << lock, loads >>
            /\ IF variant = "app"
                 THEN thr' = [thr EXCEPT ![t] = [@ EXCEPT
                        !.pc = "idle",
                        !.ret = cache[ModelKey(thr[t].path)]]]
                 ELSE thr' = [thr EXCEPT ![t] = [@ EXCEPT !.pc = "unlocked"]]
  /\ UNCHANGED << variant, registry, defaultAlias, defaultPath, cache, fails,
                  startup, req, loop, health, store, heap,
                  selection, transcript,
                  defaultIsDir >>

\* Mutant of CreateFinish: an exception of create_model leaves the lock held.
CreateFinishLeaking(t, ok) ==
  /\ thr[t].pc = "creating"
  /\ lock = CallThread(t)
  /\ LET k == ModelKey(thr[t].path)
         b == NewBundle(thr[t].path, loads[k])
     IN IF ok
          THEN /\ cache' = CachePut(cache, k, b)
               /\ fails' = fails
               /\ lock' = Free
               /\ IF variant = "app"
                    THEN thr' = [thr EXCEPT ![t] = [@ EXCEPT
                           !.pc = "idle", !.ret = cache'[k]]]
                    ELSE thr' = [thr EXCEPT ![t] = [@ EXCEPT
                           !.pc = "unlocked"]]
          ELSE /\ cache' = cache
               /\ fails' = Inc(fails, k)
               /\ lock' = lock
               /\ thr' = [thr EXCEPT ![t] = [@ EXCEPT
                    !.pc = "idle", !.raised = TRUE]]
  /\ UNCHANGED << variant, registry, defaultAlias, defaultPath, loads,
                  startup, req, loop, health, store, heap,
                  selection, transcript,
                  defaultIsDir >>

\* create_model returns (the bundle is stored) or raises; either way the
\* `with` block is left and the lock released.
CreateFinish(t, ok) ==
  /\ thr[t].pc = "creating"
  /\ lock = CallThread(t)
  /\ LET k == ModelKey(thr[t].path)
         b == NewBundle(thr[t].path, loads[k])
     IN IF ok
          THEN /\ cache' = CachePut(cache, k, b)
               /\ fails' = fails
               /\ IF variant = "app"
                    THEN thr' = [thr EXCEPT ![t] = [@ EXCEPT
                           !.pc = "idle", !.ret = cache'[k]]]
                    ELSE thr' = [thr EXCEPT ![t] = [@ EXCEPT
                           !.pc = "unlocked"]]
          ELSE /\ cache' = cache
               /\ fails' = Inc(fails, k)
               /\ thr' = [thr EXCEPT ![t] = [@ EXCEPT
                    !.pc = "idle", !.raised = TRUE]]
  /\ lock' = Free
  /\ UNCHANGED << variant, registry, defaultAlias, defaultPath, loads,
                  startup, req, loop, health, store, heap,
                  selection, transcript,
                  defaultIsDir >>

\* server: `return self._cache[key]`, after the lock was released.
ReturnUnlocked(t) ==
  /\ thr[t].pc = "unlocked"
  /\ thr' = [thr EXCEPT ![t] = [@ EXCEPT
       !.pc = "idle", !.ret = cache[ModelKey(thr[t].path)]]]
  /\ UNCHANGED << variant, registry, defaultAlias, defaultPath, cache, lock,
                  loads, fails, startup, req, loop, health, store, heap,
                  selection, transcript,
                  defaultIsDir >>

\* Mutant of TryGet: a lookup that finds no entry loads the model.
TryGetLoading(t) ==
  /\ thr[t].pc = "wait"
  /\ thr[t].op = "get"
  /\ lock = Free
  /\ LET k == ModelKey(thr[t].path)
         b == IF k \in DOMAIN cache THEN cache[k]
                                    ELSE NewBundle(thr[t].path, loads[k] + 1)
     IN /\ cache' = CachePut(cache, k, b)
        /\ loads' = IF k \in DOMAIN cache THEN loads ELSE Inc(loads, k)
        /\ thr' = [thr EXCEPT ![t] = [@ EXCEPT !.pc = "idle", !.ret = b]]
  /\ UNCHANGED << variant, registry, defaultAlias, defaultPath, lock, fails,
                  startup, req, loop, health, store, heap, selection,
                  transcript, defaultIsDir >>

\* app: _get_cached_model: the lookup under the lock, KeyError when absent.
TryGet(t) ==
  /\ thr[t].pc = "wait"
  /\ thr[t].op = "get"
  /\ lock = Free
  /\ thr' = [thr EXCEPT ![t] = [@ EXCEPT
       !.pc = "idle",
       !.ret = CacheGet(cache, ModelKey(thr[t].path)),
       !.raised = CacheGet(cache, ModelKey(thr[t].path)) = NoBundle]]
  /\ UNCHANGED << variant, registry, defaultAlias, defaultPath, cache, lock,
                  loads, fails, startup, req, loop, health, store, heap,
                  selection, transcript,
                  defaultIsDir >>

InitCache ==
  /\ variant \in Variants
  /\ registry = [n \in Names |-> IF n = "a" THEN "/m/a" ELSE "/m/b"]
  /\ defaultAlias = "a"
  /\ defaultPath = "/m/a"
  /\ defaultIsDir = TRUE
  /\ cache = EmptyMap
  /\ lock = Free
  /\ loads = ZeroCount
  /\ fails = ZeroCount
  /\ loop = 0
  /\ health = HealthInit
  /\ startup = StartupInit
  /\ req = [r \in Reqs |-> ReqInit]
  /\ thr = [t \in Threads |-> ThreadInit]
  /\ store = StoreInit(0)
  /\ heap = HeapInit
  /\ selection = SelectionInit
  /\ transcript = TranscriptInit

NextCache ==
  \/ \E t \in Threads, op \in CacheOps, p \in CallPaths : CallBegin(t, op, p)
  \/ \E t \in Threads : LoadAcquire(t)
  \/ \E t \in Threads, ok \in BOOLEAN : CreateFinish(t, ok)
  \/ \E t \in Threads : ReturnUnlocked(t)
  \/ \E t \in Threads : TryGet(t)

SpecCache == InitCache /\ [][NextCache]_vars

(***************************************************************************)
(* ResponseStore.  Each method body runs under the store's lock, so each   *)
(* call is one action.                                                     *)
(***************************************************************************)
\* Python's seq[start:] for any integer start.
PySliceFrom(seq, start) ==
  LET n == Len(seq)
      from == IF start < 0
                THEN (IF n + start < 0 THEN 0 ELSE n + start)
                ELSE (IF start > n THEN n ELSE start)
  IN  SubSeq(seq, from + 1, n)

\* `self._history[-self._max_history:]`
TrimHistory(h, m) == PySliceFrom(h, 0 - m)

\* ResponseStore.add
StoreAdd(p) ==
  /\ Len(store.added) < MaxAdds
  /\ LET h == Append(store.history, p)
     IN store' = [store EXCEPT
          !.latest = << p >>,
          !.history = IF Len(h) > store.max THEN TrimHistory(h, store.max)
                                            ELSE h,
          !.added = Append(@, p)]
  /\ UNCHANGED << variant, registry, defaultAlias, defaultPath, cache, lock,
                  loads, fails, startup, req, loop, health, thr, heap,
                  selection, transcript,
                  defaultIsDir >>

\* ResponseStore.latest: None (the empty sequence) or the entry _latest
\* refers to; the caller receives DictCopy of it.
LatestResult(st) == st.latest

\* ResponseStore.history: the entries of _history in order; the caller
\* receives a list of DictCopy of them.
HistoryResult(st) == [i \in 1..Len(st.history) |-> st.history[i]]

\* dict(item): a new dict holding the values of item's own keys as they are
\* now; an object item refers to is not copied, the new dict refers to the
\* same one (`src` names the dict whose nested object is shared).
DictCopy(h, p) == [src |-> p, top |-> h[p].top]

CopiesOf(h, entries) == [i \in 1..Len(entries) |-> DictCopy(h, entries[i])]

StoreLatest ==
  /\ store' = [store EXCEPT
       !.out = [op |-> "latest", val |-> CopiesOf(heap, LatestResult(store))]]
  /\ UNCHANGED << variant, registry, defaultAlias, defaultPath, cache, lock,
                  loads, fails, startup, req, loop, health, thr, heap,
                  selection, transcript,
                  defaultIsDir >>

StoreHistory ==
  /\ store' = [store EXCEPT
       !.out = [op |-> "history", val |-> CopiesOf(heap, HistoryResult(store))]]
  /\ UNCHANGED << variant, registry, defaultAlias, defaultPath, cache, lock,
                  loads, fails, startup, req, loop, health, thr, heap,
                  selection, transcript,
                  defaultIsDir >>

Flip(v) == 1 - v

Depths == {"top", "deep"}

\* The caller of add(payload) changes its dict after add returned: a value
\* under one of the dict's keys, or inside an object the dict refers to.
\* `self._latest = payload` and `self._history.append(payload)` stored the
\* dict itself, not a copy.
MutatePayload(p, d) ==
  /\ \E i \in 1..Len(store.added) : store.added[i] = p
  /\ heap' = [heap EXCEPT ![p] =
       IF d = "top" THEN [@ EXCEPT !.top = Flip(@)]
                    ELSE [@ EXCEPT !.deep = Flip(@)]]
  /\ UNCHANGED << variant, registry, defaultAlias, defaultPath, cache, lock,
                  loads, fails, startup, req, loop, health, thr, store,
                  selection, transcript,
                  defaultIsDir >>

\* The caller of latest() / history() changes the i-th dict it received:
\* a value under one of the copy's own keys, or inside the object the copy
\* shares with the stored dict.
MutateReturned(i, d) ==
  /\ i \in 1..Len(store.out.val)
  /\ IF d = "top"
       THEN /\ store' = [store EXCEPT !.out.val[i].top = Flip(@)]
            /\ heap' = heap
       ELSE /\ heap' = [heap EXCEPT ![store.out.val[i].src].deep = Flip(@)]
            /\ store' = store
  /\ UNCHANGED << variant, registry, defaultAlias, defaultPath, cache, lock,
                  loads, fails, startup, req, loop, health, thr, selection,
                  transcript, defaultIsDir >>

\* ResponseStore(max_history=m) of a server whose service has not started.
InitStore ==
  /\ variant = "server"
  /\ registry = EmptyMap
  /\ defaultAlias = NoAlias
  /\ defaultPath = "/m/a"
  /\ defaultIsDir = FALSE
  /\ cache = EmptyMap
  /\ lock = Free
  /\ loads = ZeroCount
  /\ fails = ZeroCount
  /\ loop = 0
  /\ health = HealthInit
  /\ startup = [StartupInit EXCEPT !.pc = "config_error"]
  /\ req = [r \in Reqs |-> ReqInit]
  /\ thr = [t \in Threads |-> ThreadInit]
  /\ \E m \in 0..MaxHistoryBound : store = StoreInit(m)
  /\ heap = HeapInit
  /\ selection = SelectionInit
  /\ transcript = TranscriptInit

NextStore ==
  \/ \E p \in Payloads : StoreAdd(p)
  \/ StoreLatest
  \/ StoreHistory
  \/ \E p \in Payloads, d \in Depths : MutatePayload(p, d)
  \/ \E i \in 1..MaxAdds, d \in Depths : MutateReturned(i, d)

SpecStore == InitStore /\ [][NextStore]_vars

(***************************************************************************)
(* ResponseStore called from several threads: each method is a `with       *)
(* self._lock` block whose statements are separate steps.  store.lock is   *)
(* the thread inside the block (0: none); store.added lists the payloads   *)
(* of the add calls in the order they acquired the lock.                   *)
(***************************************************************************)

StoreOps == {"add", "latest", "history"}

\* A thread outside every ResponseStore method.
CallerInit ==
  [pc |-> "idle", op |-> "", arg |-> "", ret |-> << >>, seen |-> 0]

\* add calls entered (before or after the lock) so far.
AddsEntered ==
  Len(store.added) +
  Cardinality({t \in Threads : thr[t].pc = "wait" /\ thr[t].op = "add"})

\* A thread calls add(p), latest() or history() and reaches `with self._lock`.
StoreCall(t, op, p) ==
  /\ thr[t].pc = "idle"
  /\ op = "add" => AddsEntered < MaxAdds
  /\ thr' = [thr EXCEPT ![t] =
       [pc |-> "wait", op |-> op, arg |-> IF op = "add" THEN p ELSE "",
        ret |-> << >>, seen |-> 0]]
  /\ UNCHANGED << variant, registry, defaultAlias, defaultPath, cache, lock,
                  loads, fails, startup, req, loop, health, store, heap,
                  selection, transcript, defaultIsDir >>

\* Mutant of StoreAcquire: add enters its block without taking the lock.
StoreAcquireAddUnlocked(t) ==
  /\ thr[t].pc = "wait"
  /\ thr[t].op = "add" \/ store.lock = 0
  /\ thr' = [thr EXCEPT ![t] = [@ EXCEPT
       !.pc = "in_" \o thr[t].op, !.seen = Len(store.added)]]
  /\ store' = [store EXCEPT
       !.lock = IF thr[t].op = "add" THEN @ ELSE t,
       !.added = IF thr[t].op = "add" THEN Append(@, thr[t].arg) ELSE @]
  /\ UNCHANGED << variant, registry, defaultAlias, defaultPath, cache, lock,
                  loads, fails, startup, req, loop, health, heap,
                  selection, transcript, defaultIsDir >>

\* `with self._lock:` is entered when no thread is inside a block.
StoreAcquire(t) ==
  /\ thr[t].pc = "wait"
  /\ store.lock = 0
  /\ thr' = [thr EXCEPT ![t] = [@ EXCEPT
       !.pc = "in_" \o thr[t].op, !.seen = Len(store.added)]]
  /\ store' = [store EXCEPT
       !.lock = t,
       !.added = IF thr[t].op = "add" THEN Append(@, thr[t].arg) ELSE @]
  /\ UNCHANGED << variant, registry, defaultAlias, defaultPath, cache, lock,
                  loads, fails, startup, req, loop, health, heap,
                  selection, transcript, defaultIsDir >>

\* add: `self._latest = payload`
AddSetLatest(t) ==
  /\ thr[t].pc = "in_add"
  /\ store' = [store EXCEPT !.latest = << thr[t].arg >>]
  /\ thr' = [thr EXCEPT ![t] = [@ EXCEPT !.pc = "add_append"]]
  /\ UNCHANGED << variant, registry, defaultAlias, defaultPath, cache, lock,
                  loads, fails, startup, req, loop, health, heap,
                  selection, transcript, defaultIsDir >>

\* add: `self._history.append(payload)`
AddAppend(t) ==
  /\ thr[t].pc = "add_append"
  /\ store' = [store EXCEPT !.history = Append(@, thr[t].arg)]
  /\ thr' = [thr EXCEPT ![t] = [@ EXCEPT !.pc = "add_trim"]]
  /\ UNCHANGED << variant, registry, defaultAlias, defaultPath, cache, lock,
                  loads, fails, startup, req, loop, health, heap,
                  selection, transcript, defaultIsDir >>

\* add: the length test, the slice assignment, and the end of the block.
AddTrim(t) ==
  /\ thr[t].pc = "add_trim"
  /\ store' = [store EXCEPT
       !.history = IF Len(@) > store.max THEN TrimHistory(@, store.max) ELSE @,
       !.lock = IF @ = t THEN 0 ELSE @]
  /\ thr' = [thr EXCEPT ![t] = [@ EXCEPT !.pc = "idle"]]
  /\ UNCHANGED << variant, registry, defaultAlias, defaultPath, cache, lock,
                  loads, fails, startup, req, loop, health, heap,
                  selection, transcript, defaultIsDir >>

\* latest: None or dict(self._latest), and the end of the block.
LatestRead(t) ==
  /\ thr[t].pc = "in_latest"
  /\ thr' = [thr EXCEPT ![t] = [@ EXCEPT
       !.pc = "idle", !.ret = CopiesOf(heap, LatestResult(store))]]
  /\ store' = [store EXCEPT !.lock = 0]
  /\ UNCHANGED << variant, registry, defaultAlias, defaultPath, cache, lock,
                  loads, fails, startup, req, loop, health, heap,
                  selection, transcript, defaultIsDir >>

\* history: the list of dict(item), and the end of the block.
HistoryRead(t) ==
  /\ thr[t].pc = "in_history"
  /\ thr' = [thr EXCEPT ![t] = [@ EXCEPT
       !.pc = "idle", !.ret = CopiesOf(heap, HistoryResult(store))]]
  /\ store' = [store EXCEPT !.lock = 0]
  /\ UNCHANGED << variant, registry, defaultAlias, defaultPath, cache, lock,
                  loads, fails, startup, req, loop, health, heap,
                  selection, transcript, defaultIsDir >>

\* ResponseStore(max_history=m) shared by the threads, none inside a method.
InitStoreThreads ==
  /\ variant = "server"
  /\ registry = EmptyMap
  /\ defaultAlias = NoAlias
  /\ defaultPath = "/m/a"
  /\ defaultIsDir = FALSE
  /\ cache = EmptyMap
  /\ lock = Free
  /\ loads = ZeroCount
  /\ fails = ZeroCount
  /\ loop = 0
  /\ health = HealthInit
  /\ startup = [StartupInit EXCEPT !.pc = "config_error"]
  /\ req = [r \in Reqs |-> ReqInit]
  /\ thr = [t \in Threads |-> CallerInit]
  /\ \E m \in 0..MaxHistoryBound : store = StoreInit(m)
  /\ heap = HeapInit
  /\ selection = SelectionInit
  /\ transcript = TranscriptInit

NextStoreThreads ==
  \/ \E t \in Threads, op \in StoreOps, p \in Payloads : StoreCall(t, op, p)
  \/ \E t \in Threads : StoreAcquire(t)
  \/ \E t \in Threads : AddSetLatest(t)
  \/ \E t \in Threads : AddAppend(t)
  \/ \E t \in Threads : AddTrim(t)
  \/ \E t \in Threads : LatestRead(t)
  \/ \E t \in Threads : HistoryRead(t)

SpecStoreThreads == InitStoreThreads /\ [][NextStoreThreads]_vars


(***************************************************************************)
(* Construction of the registry and calls of the selection resolver, from  *)
(* the state before the default alias is resolved: the module body of      *)
(* src/app.py after _discover_local_models, ModelManager.__init__ after    *)
(* _discover_models.                                                       *)
(***************************************************************************)
RegistrySelectors == {NoSel, "a", "b", "zz", "/m/a", "/x/../m/a", "/x/a"}

\* The is_dir() check, then the resolution of the default alias.
Construct ==
  /\ startup.pc = "constructing"
  /\ IF defaultIsDir
       THEN /\ registry' = RegistryWithDefault(registry, defaultPath)
            /\ defaultAlias' \in ResolveDefaultAlias(registry, defaultPath)
            /\ startup' = [startup EXCEPT !.pc = "bulk"]
       ELSE /\ registry' = registry
            /\ defaultAlias' = defaultAlias
            /\ startup' = [startup EXCEPT !.pc = "config_error"]
  /\ UNCHANGED << variant, defaultPath, cache, lock, loads, fails, req, loop,
                  health, thr, store, heap, selection, transcript,
                  defaultIsDir >>

\* One call of _resolve_model_selection / _resolve_selection.
ResolveCall(sel) ==
  /\ startup.pc = "bulk"
  /\ LET out == ResolveSelection(registry, defaultAlias, sel)
     IN IF out = {}
          THEN selection' = [called |-> TRUE, sel |-> sel, raised |-> TRUE,
                             alias |-> NoAlias, path |-> ""]
          ELSE \E ap \in out :
                 selection' = [called |-> TRUE, sel |-> sel, raised |-> FALSE,
                               alias |-> ap[1], path |-> ap[2]]
  /\ UNCHANGED << variant, registry, defaultAlias, defaultPath, cache, lock,
                  loads, fails, startup, req, loop, health, thr, store, heap,
                  transcript, defaultIsDir >>

InitRegistry ==
  /\ variant \in Variants
  /\ \E fs \in LinkedFileSystems, dp \in DefaultPaths :
       /\ registry = Discover(fs)
       /\ defaultPath = dp
       /\ defaultIsDir = IsDir(fs, dp)
  /\ defaultAlias = NoAlias
  /\ startup = [StartupInit EXCEPT !.pc = "constructing"]
  /\ cache = EmptyMap
  /\ lock = Free
  /\ loads = ZeroCount
  /\ fails = ZeroCount
  /\ loop = 0
  /\ health = HealthInit
  /\ req = [r \in Reqs |-> ReqInit]
  /\ thr = [t \in Threads |-> ThreadInit]
  /\ store = StoreInit(0)
  /\ heap = HeapInit
  /\ selection = SelectionInit
  /\ transcript = TranscriptInit

NextRegistry ==
  \/ Construct
  \/ \E sel \in RegistrySelectors : ResolveCall(sel)

SpecRegistry == InitRegistry /\ [][NextRegistry]_vars

(***************************************************************************)
(* transcribe_audio (src/transcribe.py): the aggregation of the raw        *)
(* segments the model yields.  A text is a sequence of characters; " " is  *)
(* whitespace.                                                             *)
(***************************************************************************)
IsSpace(c) == c = " "

\* str.lstrip / str.rstrip / str.strip
RECURSIVE LStrip(_)
LStrip(t) ==
  IF t = << >> THEN t
  ELSE IF IsSpace(Head(t)) THEN LStrip(Tail(t)) ELSE t

RECURSIVE RStrip(_)
RStrip(t) ==
  IF t = << >> THEN t
  ELSE IF IsSpace(t[Len(t)]) THEN RStrip(SubSeq(t, 1, Len(t) - 1)) ELSE t

Strip(t) == RStrip(LStrip(t))

\* len(text.split()): the number of maximal runs of non-whitespace.
SplitCount(t) ==
  Cardinality({ i \in 1..Len(t) :
                  ~IsSpace(t[i]) /\ (i = 1 \/ IsSpace(t[i - 1])) })

\* The texts a raw segment can carry.
SegTexts ==
  { << >>, << " " >>, << "x" >>, << " ", "x", " " >>, << "x", " ", " ", "y" >> }

\* seg.words: absent or None (has = FALSE), or a list of words, each given
\* by its text w.word.
NoWords == [has |-> FALSE, list |-> << >>]

SegWords ==
  { NoWords,
    [has |-> TRUE, list |-> << >>],
    [has |-> TRUE, list |-> << << " " >> >>],
    [has |-> TRUE, list |-> << << " ", "x" >>, << >>, << "y" >> >>] }

RawSegs == { [text |-> t, words |-> w] : t \in SegTexts, w \in SegWords }

\* The raw segment sequences of length n; `start` is the position of the
\* segment in the audio.
RawSeqs(n) ==
  { [i \in 1..n |-> [start |-> i, text |-> f[i].text, words |-> f[i].words]] :
      f \in [1..n -> RawSegs] }

\* Mutant of EmitWords: every word of the raw segment is emitted.
EmitAllWords(ws) == SelectSeq(ws, LAMBDA w : w = w)

\* `[... for w in seg.words if getattr(w, "word", "").strip()]`
EmitWords(ws) == SelectSeq(ws, LAMBDA w : Strip(w) # << >>)

\* The payload of a retained segment.
SegPayload(seg, text, wordTs) ==
  IF wordTs /\ seg.words.has /\ seg.words.list # << >>
    THEN [start |-> seg.start, text |-> text, hasWords |-> TRUE,
          words |-> EmitWords(seg.words.list)]
    ELSE [start |-> seg.start, text |-> text, hasWords |-> FALSE,
          words |-> << >>]

\* "\n".join(lines)
RECURSIVE JoinLines(_)
JoinLines(ls) ==
  IF ls = << >> THEN << >>
  ELSE IF Len(ls) = 1 THEN ls[1]
  ELSE ls[1] \o << "\n" >> \o JoinLines(Tail(ls))

\* Mutant of SegmentStep: the loop ends at the first segment whose trimmed
\* text is empty.
SegmentStepStopAtEmpty ==
  /\ transcript.pc = "loop"
  /\ transcript.i <= Len(transcript.raw)
  /\ LET seg == transcript.raw[transcript.i]
         text == Strip(seg.text)
     IN IF text = << >>
          THEN transcript' = [transcript EXCEPT !.i = Len(transcript.raw) + 1]
          ELSE transcript' = [transcript EXCEPT
                 !.i = @ + 1,
                 !.lines = Append(@, text),
                 !.wordCount = @ + SplitCount(text),
                 !.charCount = @ + Len(text),
                 !.segments = Append(@, SegPayload(seg, text, transcript.wordTs))]
  /\ UNCHANGED << variant, registry, defaultAlias, defaultPath, cache, lock,
                  loads, fails, startup, req, loop, health, thr, store, heap,
                  selection, defaultIsDir >>

\* Mutant of SegmentStep: the counts are taken on the raw text of every
\* segment, before the empty ones are dropped.
SegmentStepCountRaw ==
  /\ transcript.pc = "loop"
  /\ transcript.i <= Len(transcript.raw)
  /\ LET seg == transcript.raw[transcript.i]
         text == Strip(seg.text)
     IN IF text = << >>
          THEN transcript' = [transcript EXCEPT
                 !.i = @ + 1,
                 !.wordCount = @ + SplitCount(seg.text),
                 !.charCount = @ + Len(seg.text)]
          ELSE transcript' = [transcript EXCEPT
                 !.i = @ + 1,
                 !.lines = Append(@, text),
                 !.wordCount = @ + SplitCount(seg.text),
                 !.charCount = @ + Len(seg.text),
                 !.segments = Append(@, SegPayload(seg, text, transcript.wordTs))]
  /\ UNCHANGED << variant, registry, defaultAlias, defaultPath, cache, lock,
                  loads, fails, startup, req, loop, health, thr, store, heap,
                  selection, defaultIsDir >>

\* One iteration of `for seg in segments_iter`.
SegmentStep ==
  /\ transcript.pc = "loop"
  /\ transcript.i <= Len(transcript.raw)
  /\ LET seg == transcript.raw[transcript.i]
         text == Strip(seg.text)
     IN IF text = << >>
          THEN transcript' = [transcript EXCEPT !.i = @ + 1]
          ELSE transcript' = [transcript EXCEPT
                 !.i = @ + 1,
                 !.lines = Append(@, text),
                 !.wordCount = @ + SplitCount(text),
                 !.charCount = @ + Len(text),
                 !.segments = Append(@, SegPayload(seg, text, transcript.wordTs))]
  /\ UNCHANGED << variant, registry, defaultAlias, defaultPath, cache, lock,
                  loads, fails, startup, req, loop, health, thr, store, heap,
                  selection, defaultIsDir >>

\* The iterator is exhausted: the TranscriptionResult is built; its
\* properties segment_count and text are read by the caller.
TranscribeReturn ==
  /\ transcript.pc = "loop"
  /\ transcript.i > Len(transcript.raw)
  /\ transcript' = [transcript EXCEPT
       !.pc = "returned",
       !.segmentCount = Len(transcript.lines),
       !.text = JoinLines(transcript.lines)]
  /\ UNCHANGED << variant, registry, defaultAlias, defaultPath, cache, lock,
                  loads, fails, startup, req, loop, health, thr, store, heap,
                  selection, defaultIsDir >>

\* transcribe_audio is called on a model that yields the segments `raw`.
InitTranscribe ==
  /\ variant \in Variants
  /\ registry = [n \in Names |-> IF n = "a" THEN "/m/a" ELSE "/m/b"]
  /\ defaultAlias = "a"
  /\ defaultPath = "/m/a"
  /\ defaultIsDir = TRUE
  /\ cache = EmptyMap
  /\ lock = Free
  /\ loads = ZeroCount
  /\ fails = ZeroCount
  /\ loop = 0
  /\ health = HealthInit
  /\ startup = StartupInit
  /\ req = [r \in Reqs |-> ReqInit]
  /\ thr = [t \in Threads |-> ThreadInit]
  /\ store = StoreInit(0)
  /\ heap = HeapInit
  /\ selection = SelectionInit
  /\ \E n \in 0..MaxSegs, wts \in BOOLEAN :
       \E raw \in RawSeqs(n) :
         transcript = [TranscriptInit EXCEPT
                         !.pc = "loop", !.raw = raw, !.wordTs = wts]

NextTranscribe ==
  \/ SegmentStep
  \/ TranscribeReturn

SpecTranscribe == InitTranscribe /\ [][NextTranscribe]_vars

(***************************************************************************)
(* Properties.                                                             *)
(***************************************************************************)
\* Threads of SpecCache that returned from a "load" call on key k.
Returned(t) ==
  thr[t].pc = "idle" /\ thr[t].op = "load" /\ ~thr[t].raised

\* C1: when N >= 2 threads call _ensure_model_loaded / _load_model
\* concurrently with the same key and create_model does not raise, it is
\* invoked exactly once for that key, and every caller returns the bundle
\* stored in the cache.
C1_SingleFlight ==
  /\ \A k \in Keys : fails[k] = 0 => loads[k] <= 1
  /\ \A t \in Threads :
       Returned(t) =>
         LET k == ModelKey(thr[t].path) IN
         /\ k \in DOMAIN cache
         /\ thr[t].ret = cache[k]
         /\ fails[k] = 0 => loads[k] = 1

\* Two callers of the same key have both returned the same bundle after one
\* load that did not raise, one of them having arrived while the lock was
\* held.
C1_Witness ==
  \E t1, t2 \in Threads :
    /\ t1 # t2
    /\ Returned(t1) /\ Returned(t2)
    /\ thr[t1].path = thr[t2].path
    /\ thr[t1].calls = 1 /\ thr[t2].calls = 1
    /\ thr[t2].contended
    /\ thr[t1].ret = thr[t2].ret
    /\ fails[ModelKey(thr[t1].path)] = 0
    /\ loads[ModelKey(thr[t1].path)] = 1

\* create_model invocations for key k that have not returned or raised yet.
InProgress(k) ==
  Cardinality({ r \in Reqs : req[r].pc = "loading" /\ ModelKey(req[r].path) = k })

Successes(k) == loads[k] - fails[k] - InProgress(k)

\* C2 as stated: create_model is invoked at most once per cache key for the
\* whole lifetime of the process.
C2_Original == \A k \in Keys : loads[k] <= 1

\* C2 as amended: create_model is never invoked for a key that is in the
\* cache, so it returns a bundle at most once per key for the lifetime of
\* the process and the cache holds exactly the keys whose load returned; a
\* load that raised may be invoked again.
C2_OneSuccessfulLoadPerKey ==
  /\ [](\A k \in Keys :
          /\ Successes(k) \in {0, 1}
          /\ Successes(k) = 1 <=> k \in DOMAIN cache)
  /\ [][\A k \in Keys : loads'[k] # loads[k] => k \notin DOMAIN cache]_vars

\* A key was loaded again after a load that raised, and is now cached.
C2_Witness ==
  \E k \in Keys : loads[k] >= 2 /\ fails[k] >= 1 /\ k \in DOMAIN cache


\* C3 as stated: a transcription request never invokes create_model, and a
\* request for a registered model with no cache entry ends in NotReady (503
\* naming the alias) with no staged file and no inference.
C3_RequestNeverLoads ==
  \A r \in Reqs :
    /\ req[r].loadCalls = 0
    /\ req[r].pc = "notready" =>
         /\ req[r].status = 503
         /\ req[r].detail = {req[r].alias}
         /\ ~req[r].created
         /\ req[r].inferCalls = 0

\* C4 as stated: once a request has created its staged file, the file no
\* longer exists when the request has ended, on every exit path, and a file
\* already missing at cleanup does not fail a request whose inference
\* returned.
C4_TmpRemovedOnEveryExit ==
  \A r \in Reqs :
    /\ (req[r].pc \in Terminal /\ req[r].created) => ~req[r].tmp
    /\ (req[r].pc \in Terminal /\ req[r].inferCalls = 1 /\ req[r].inferOk)
         => req[r].pc = "done"

\* C5 as stated: no blocking capability call made for a transcription
\* request (create_model, transcribe_audio) runs on the event loop thread:
\* while a request waits on one, the loop is free for other handlers.
C5_LoopNeverBlocked ==
  \A r \in Reqs : req[r].pc \in {"loading", "transcribing"} => loop = 0

\* C6: the bulk pass attempts every registered alias whatever raised
\* before; every attempted alias whose load did not raise has its bundle in
\* the cache; start-up fails only at the re-verification of the default
\* model, and after a start-up that succeeded the failures are warnings.
C6_BulkLoadIsolatesFailures ==
  /\ startup.pc \in {"ok", "failed"} => startup.attempted = DOMAIN registry
  /\ \A al \in startup.attempted \ startup.errors :
       ModelKey(registry[al]) \in DOMAIN cache
  /\ startup.errors \subseteq startup.attempted
  /\ startup.pc = "failed" =>
       ModelKey(registry[defaultAlias]) \notin DOMAIN cache
  /\ startup.pc = "ok" => startup.warned = startup.errors

\* Start-up succeeded although the load of a non-default alias raised, and
\* another alias was loaded after that failure.
C6_Witness ==
  /\ startup.pc = "ok"
  /\ \E b \in startup.errors :
       /\ b # defaultAlias
       /\ ModelKey(registry[b]) \notin DOMAIN cache
       /\ fails[ModelKey(registry[b])] = 1
  /\ ModelKey(registry[defaultAlias]) \in DOMAIN cache

\* C7 as stated: start-up fails fatally if and only if the default model's
\* bundle is absent from the cache after the bulk pass.
C7_Original ==
  startup.pc \in {"ok", "failed"} =>
    (startup.pc = "failed" <=> startup.absentAtVerify)

\* C7 as amended: start-up fails fatally if and only if the default
\* model's bundle is absent from the cache after the re-verification, which
\* is a cache lookup in src/app.py and one further load attempt in
\* ModelManager.load_all; a start-up that fails found the bundle absent after
\* the bulk pass, and in every state after a successful start-up the default
\* alias's bundle is in the cache.
C7_DefaultVerified ==
  /\ startup.pc = "failed" =>
       /\ ModelKey(registry[defaultAlias]) \notin DOMAIN cache
       /\ startup.absentAtVerify
  /\ startup.pc = "ok" => ModelKey(registry[defaultAlias]) \in DOMAIN cache
  /\ (variant = "app" /\ startup.pc = "ok") => ~startup.absentAtVerify

\* Start-up failed at the re-verification although another alias is loaded.
C7_Witness ==
  /\ startup.pc = "failed"
  /\ defaultAlias \in startup.errors
  /\ DOMAIN cache # {}

\* The cache keys a health response was computed from say what it reports.
HealthMatches(keys) ==
  /\ health.status = "ok" <=> ModelKey(registry[defaultAlias]) \in keys
  /\ health.status \in {"ok", "loading"}
  /\ DOMAIN health.models = DOMAIN registry
  /\ \A al \in DOMAIN registry :
       health.models[al] <=> ModelKey(registry[al]) \in keys

\* C8: a health response reports "ok" exactly when the default model's key
\* was in the cache it read and "loading" otherwise, and loaded = true for
\* an alias exactly when that cache held the alias's key; in the app build,
\* whose cache no request changes, the last response agrees with the
\* present cache; a health check changes neither the cache nor the number
\* of create_model invocations.
C8_HealthReportsCache ==
  /\ [](health.status # "" =>
          /\ HealthMatches(health.seen)
          /\ health.seen \subseteq DOMAIN cache
          /\ variant = "app" => HealthMatches(DOMAIN cache)
          /\ ~health.raised)
  /\ [][health' # health => (cache' = cache /\ loads' = loads)]_vars

\* After a start-up where the non-default alias b raised and the default a
\* loaded, health answered b.loaded = false, a.loaded = true, status "ok".
C8_Witness ==
  /\ health.status = "ok"
  /\ health.pc = "idle"
  /\ defaultAlias = "a"
  /\ "b" \in startup.errors
  /\ "b" \in DOMAIN health.models
  /\ ~health.models["b"]
  /\ health.models["a"]

\* C9 as stated: the stored history is never longer than the configured
\* maximum, for every maximum including 0 and 1.
C9_HistoryBounded == Len(store.history) <= store.max

Min(a, b) == IF a < b THEN a ELSE b

\* The last n elements of a sequence.
LastN(seq, n) == SubSeq(seq, Len(seq) - n + 1, Len(seq))

\* C10 as stated: history() returns the last min(M, max) payloads added,
\* in the order they were added.
C10_LastMaxInOrder ==
  HistoryResult(store) =
    LastN(store.added, Min(Len(store.added), store.max))

\* What a call of latest() / history() made now hands to its caller: the
\* content, at every depth, of the dicts it returns.
LatestValue == [i \in 1..Len(LatestResult(store)) |-> heap[LatestResult(store)[i]]]

HistoryValue ==
  [i \in 1..Len(HistoryResult(store)) |-> heap[HistoryResult(store)[i]]]

\* C11 as stated: no stored entry changes after add returns: a step that is
\* not an add (a mutation of a payload that was passed to add, a mutation at
\* any depth of a value latest() or history() returned, or a read) never
\* changes what later latest() or history() calls return.
C11_EntriesImmutable ==
  [][store.added' = store.added =>
       (LatestValue' = LatestValue /\ HistoryValue' = HistoryValue)]_vars

\* C12: a call of the selection resolver returns, for no selector, the
\* default alias with its registry path; for a selector that is a
\* registered alias, that alias with its registry path, also when the
\* selector read as a path resolves to the path of another alias; for any
\* other selector, an alias whose registry path is the resolved selector
\* path, and it raises when there is none; the returned path is always the
\* registry entry of the returned alias.
C12_ResolveSelection ==
  selection.called =>
    LET s == selection.sel IN
    /\ s = NoSel =>
         /\ ~selection.raised
         /\ selection.alias = defaultAlias
         /\ selection.path = registry[defaultAlias]
    /\ (s # NoSel /\ s \in DOMAIN registry) =>
         /\ ~selection.raised
         /\ selection.alias = s
         /\ selection.path = registry[s]
    /\ (s # NoSel /\ s \notin DOMAIN registry) =>
         IF \E al \in DOMAIN registry : registry[al] = Resolve(s)
           THEN /\ ~selection.raised
                /\ registry[selection.alias] = Resolve(s)
           ELSE selection.raised
    /\ ~selection.raised =>
         /\ selection.alias \in DOMAIN registry
         /\ selection.path = registry[selection.alias]

\* The selector "a" is a registered alias and, read as a path, resolves to
\* the registry path of the other alias: the alias "a" was returned.
C12_Witness ==
  /\ selection.called
  /\ selection.sel = "a"
  /\ selection.alias = "a"
  /\ \E al \in DOMAIN registry :
       al # "a" /\ registry[al] = Resolve("a") /\ registry["a"] # Resolve("a")

\* The selector of request r matches neither a registered alias nor a
\* registered path.
Unmatched(r) ==
  /\ req[r].pc # "new"
  /\ req[r].sel # NoSel
  /\ req[r].sel \notin DOMAIN registry
  /\ \A al \in DOMAIN registry : registry[al] # Resolve(req[r].sel)

\* C13: a transcription request whose selector matches neither a
\* registered alias nor a registered path ends as a client error (400) whose
\* message lists every alias of the registry, the synthesized default alias
\* included; it stages no file, runs no inference and invokes no load, and
\* the step that rejects it changes neither the load counts nor the cache.
C13_NotFoundIsClientError ==
  /\ [](\A r \in Reqs :
          Unmatched(r) =>
            /\ req[r].pc = "notfound"
            /\ req[r].status = 400
            /\ req[r].detail = DOMAIN registry
            /\ defaultAlias \in req[r].detail
            /\ ~req[r].created /\ ~req[r].tmp
            /\ req[r].inferCalls = 0
            /\ req[r].loadCalls = 0)
  /\ [][\A r \in Reqs :
          (req[r].pc = "new" /\ req'[r].pc = "notfound") =>
            (loads' = loads /\ fails' = fails /\ cache' = cache /\ lock' = lock)]_vars

\* A request for the unknown selector "zz" was rejected with a message
\* listing the synthesized default alias "a" of "/x/a" along with "b".
C13_Witness ==
  \E r \in Reqs :
    /\ Unmatched(r)
    /\ req[r].sel = "zz"
    /\ req[r].pc = "notfound"
    /\ defaultPath = "/x/a"
    /\ req[r].detail = {"a", "b"}

\* C14 as stated: when the configured default path is already a registry
\* path, the default alias is an alias of that path and the registry is
\* unchanged; otherwise the alias made from the path's final segment is
\* inserted for it and the other entries are kept; in both cases the
\* registry entry of the default alias is the configured default path from
\* then on.
C14_ResolveDefault ==
  /\ [][(startup.pc = "constructing" /\ startup'.pc = "bulk") =>
          IF \E al \in DOMAIN registry : registry[al] = defaultPath
            THEN /\ registry' = registry
                 /\ defaultAlias' \in DOMAIN registry
                 /\ registry[defaultAlias'] = defaultPath
            ELSE /\ defaultAlias' = BaseName(defaultPath)
                 /\ defaultAlias' \in DOMAIN registry'
                 /\ registry'[defaultAlias'] = defaultPath
                 /\ \A al \in DOMAIN registry \ {defaultAlias'} :
                      al \in DOMAIN registry' /\ registry'[al] = registry[al]]_vars
  /\ [](startup.pc = "bulk" => registry[defaultAlias] = defaultPath)

\* C15: when the configured default path is not a directory, construction
\* raises whatever the model root contains: no create_model invocation is
\* ever made, nothing is cached, no request and no health check is served;
\* and construction raises in no other case.
C15_MissingDefaultIsFatal ==
  /\ startup.pc = "config_error" <=> ~defaultIsDir
  /\ ~defaultIsDir =>
       /\ \A k \in Keys : loads[k] = 0
       /\ cache = EmptyMap
       /\ startup.attempted = {}
       /\ \A r \in Reqs : req[r].pc = "new"
       /\ health.status = ""

\* The model root holds the model directories "/m/a" and "/m/b", the
\* configured default "/x/a" is not a directory: construction raised.
C15_Witness ==
  /\ ~defaultIsDir
  /\ defaultPath = "/x/a"
  /\ DOMAIN registry = {"a", "b"}
  /\ startup.pc = "config_error"

\* C16: within one transcription request transcribe_audio is invoked at
\* most once; when it raised, the request ends as a server error (500) in
\* Failed, and a request that has ended never changes again, so there is no
\* second attempt.
C16_NoInferenceRetry ==
  /\ [](\A r \in Reqs :
          /\ req[r].inferCalls <= 1
          /\ (req[r].pc \in Terminal /\ req[r].inferCalls = 1 /\ ~req[r].inferOk)
               => (req[r].pc = "failed" /\ req[r].status = 500))
  /\ [][\A r \in Reqs :
          /\ req[r].pc \in Terminal => req'[r] = req[r]
          /\ (req[r].pc = "inferred" /\ ~req[r].inferOk)
               => /\ req'[r].pc \in {"inferred", "failed"}
                  /\ req'[r].inferCalls = req[r].inferCalls]_vars

\* A request whose only inference raised has ended in Failed with 500.
C16_Witness ==
  \E r \in Reqs :
    /\ req[r].pc = "failed"
    /\ req[r].status = 500
    /\ req[r].inferCalls = 1
    /\ ~req[r].inferOk
    /\ req[r].created

\* C17 as stated: a transcription request that ends in an error (NotFound,
\* NotReady, or a failure after the selection was resolved) has inserted
\* nothing into the model cache; no step of a request changes the registry
\* or the record of another request, and a step that ends a request in an
\* error leaves the cache as it is.
C17_ErrorLeavesCacheUnchanged ==
  /\ [](\A r \in Reqs :
          req[r].pc \in {"notfound", "notready", "failed"} => ~req[r].inserted)
  /\ [][/\ registry' = registry
        /\ \A r, q \in Reqs :
             (r # q /\ req'[r] # req[r]) => req'[q] = req[q]
        /\ \A r \in Reqs :
             (req[r].pc \notin Terminal /\
              req'[r].pc \in {"notfound", "notready", "failed"})
               => cache' = cache]_vars

\* A text without its leading and trailing whitespace: from its first to
\* its last character that is not whitespace.
Ink(t) == { j \in 1..Len(t) : t[j] # " " }

Trim(t) ==
  IF Ink(t) = {} THEN << >>
  ELSE SubSeq(t, CHOOSE j \in Ink(t) : \A k \in Ink(t) : j <= k,
                 CHOOSE j \in Ink(t) : \A k \in Ink(t) : k <= j)

\* The whitespace-delimited tokens of a text, counted by their last
\* characters.
Tokens(t) ==
  Cardinality({ j \in Ink(t) : j = Len(t) \/ t[j + 1] = " " })

\* The positions, among the first n raw segments, of those to retain.
Retained(n) ==
  { i \in 1..n : i <= Len(transcript.raw) /\ Ink(transcript.raw[i].text) # {} }

RECURSIVE SumTo(_, _)
SumTo(f, n) == IF n = 0 THEN 0 ELSE f[n] + SumTo(f, n - 1)

\* Where line k starts in the joined text, less one.
LineOffset(ls, k) == SumTo([j \in 1..Len(ls) |-> Len(ls[j]) + 1], k - 1)

\* C18: at every point of the aggregation the result holds exactly the
\* segments, among those read so far, whose trimmed text is not empty, in
\* their original order and with the trimmed text; the call returns only
\* when every raw segment was read, so an empty segment stops nothing;
\* segmentCount is the number of retained segments and the length of the
\* segments list, and text is the retained trimmed texts joined by newline.
C18_RetainsNonEmptySegments ==
  transcript.pc \in {"loop", "returned"} =>
    LET ls == transcript.lines
        sg == transcript.segments
        kept == Retained(transcript.i - 1)
    IN /\ Len(ls) = Cardinality(kept)
       /\ Len(sg) = Len(ls)
       /\ \A k \in 1..Len(sg) :
            /\ sg[k].start \in kept
            /\ sg[k].text = Trim(transcript.raw[sg[k].start].text)
            /\ ls[k] = sg[k].text
            /\ \A j \in 1..(k - 1) : sg[j].start < sg[k].start
       /\ transcript.pc = "returned" =>
            /\ transcript.i = Len(transcript.raw) + 1
            /\ transcript.segmentCount = Cardinality(Retained(Len(transcript.raw)))
            /\ transcript.segmentCount = Len(sg)
            /\ Len(transcript.text) =
                 IF ls = << >> THEN 0 ELSE LineOffset(ls, Len(ls) + 1) - 1
            /\ \A k \in 1..Len(ls) :
                 /\ SubSeq(transcript.text, LineOffset(ls, k) + 1,
                           LineOffset(ls, k) + Len(ls[k])) = ls[k]
                 /\ k > 1 => transcript.text[LineOffset(ls, k)] = "\n"

\* A first segment of whitespace only was dropped and the second segment,
\* " x ", was retained as "x".
C18_Witness ==
  /\ transcript.pc = "returned"
  /\ Len(transcript.raw) = 2
  /\ transcript.raw[1].text = << " " >>
  /\ transcript.raw[2].text = << " ", "x", " " >>
  /\ transcript.lines = << << "x" >> >>
  /\ transcript.segmentCount = 1

\* C19: in the returned result wordCount is the sum, over the retained
\* segments, of the number of whitespace-delimited tokens of the trimmed
\* text, and charCount the sum of the lengths of the trimmed texts; dropped
\* segments add to neither.
C19_CountsOverRetained ==
  transcript.pc = "returned" =>
    LET n == Len(transcript.raw)
        words == [i \in 1..n |->
                    IF i \in Retained(n)
                      THEN Tokens(Trim(transcript.raw[i].text)) ELSE 0]
        chars == [i \in 1..n |->
                    IF i \in Retained(n)
                      THEN Len(Trim(transcript.raw[i].text)) ELSE 0]
    IN /\ transcript.wordCount = SumTo(words, n)
       /\ transcript.charCount = SumTo(chars, n)

\* The segments " x " and "x  y" gave 3 words and 5 characters.
C19_Witness ==
  /\ transcript.pc = "returned"
  /\ Len(transcript.raw) = 2
  /\ transcript.raw[1].text = << " ", "x", " " >>
  /\ transcript.raw[2].text = << "x", " ", " ", "y" >>
  /\ transcript.wordCount = 3
  /\ transcript.charCount = 5

\* The positions of the words of a raw word list that are not empty after
\* trimming.
InkWords(ws) == { j \in 1..Len(ws) : Ink(ws[j]) # {} }

\* C20: a retained segment carries words only when word-level timing was
\* requested and its raw segment exposes word data; the words it carries are
\* the raw words that are not empty after trimming, in the raw order, each
\* with a text that is not empty; when word-level timing was not requested no
\* segment carries words.
C20_WordsFiltered ==
  transcript.pc \in {"loop", "returned"} =>
    \A k \in 1..Len(transcript.segments) :
      LET sg == transcript.segments[k]
          ws == transcript.raw[sg.start].words
      IN /\ sg.hasWords => (transcript.wordTs /\ ws.has)
         /\ ~transcript.wordTs => ~sg.hasWords
         /\ ~sg.hasWords => sg.words = << >>
         /\ sg.hasWords =>
              /\ Len(sg.words) = Cardinality(InkWords(ws.list))
              /\ \A m \in 1..Len(sg.words) :
                   /\ sg.words[m] # << >>
                   /\ Ink(sg.words[m]) # {}
                   /\ \E j \in InkWords(ws.list) :
                        /\ Cardinality({ x \in InkWords(ws.list) : x < j }) = m - 1
                        /\ sg.words[m] = ws.list[j]

\* With word-level timing, a segment whose raw words are " x", "" and "y"
\* carries " x" and "y".
C20_Witness ==
  /\ transcript.pc = "returned"
  /\ transcript.wordTs
  /\ \E k \in 1..Len(transcript.segments) :
       /\ transcript.segments[k].hasWords
       /\ Len(transcript.raw[transcript.segments[k].start].words.list) = 3
       /\ transcript.segments[k].words = << << " ", "x" >>, << "y" >> >>

\* The steps a request handler can take, as pairs of positions.
RequestOrder ==
  { << "new", "notfound" >>, << "new", "notready" >>, << "new", "loading" >>,
    << "new", "reading" >>, << "loading", "reading" >>,
    << "loading", "failed" >>, << "reading", "transcribing" >>,
    << "reading", "failed" >>, << "transcribing", "inferred" >>,
    << "inferred", "done" >>, << "inferred", "failed" >>,
    << "reading", "cancelled" >>, << "transcribing", "cancelled" >> }

\* C21: a request resolves its selection, then fetches the bundle, then
\* stages the upload, then transcribes, then ends: its staged file is
\* created only when the selection was resolved and the bundle fetched, its
\* inference starts only when the upload was written to the staged file, a
\* request that ended in NotFound or NotReady never created a file, and
\* every step of a handler follows that order.
C21_RequestOrder ==
  /\ [](\A r \in Reqs :
          /\ req[r].created =>
               /\ req[r].alias \in DOMAIN registry
               /\ req[r].path = registry[req[r].alias]
               /\ req[r].bundle # NoBundle
          /\ req[r].written => req[r].created
          /\ req[r].inferCalls >= 1 => req[r].written
          /\ req[r].pc \in {"transcribing", "inferred", "done"} =>
               (req[r].written /\ req[r].inferCalls = 1)
          /\ req[r].pc \in {"notfound", "notready"} =>
               (~req[r].created /\ ~req[r].tmp /\ req[r].inferCalls = 0))
  /\ [][\A r \in Reqs :
          req'[r].pc # req[r].pc =>
            << req[r].pc, req'[r].pc >> \in RequestOrder]_vars

\* A request went through every position and ended in Done.
C21_Witness ==
  \E r \in Reqs :
    /\ req[r].pc = "done"
    /\ req[r].created /\ req[r].written /\ req[r].inferOk
    /\ req[r].status = 200

\* C22 as stated: the staged file of a request exists for as long as the
\* worker of that request is running transcribe_audio, in every
\* interleaving, the cancellation of the awaiting handler included.
C22_TmpExistsWhileInferring ==
  \A r \in Reqs : req[r].running => req[r].tmp

\* C23: the model cache only grows: every step, whatever it is (a load at
\* start-up, a lookup, a health check, a step of a request), keeps every
\* key of the cache bound to the bundle it was bound to.
C23_CacheOnlyGrows ==
  [][\A k \in DOMAIN cache : k \in DOMAIN cache' /\ cache'[k] = cache[k]]_vars

\* A request has inserted a bundle into a cache that held another one, and
\* a health check has run since.
C23_Witness ==
  /\ \E r \in Reqs : req[r].inserted /\ req[r].pc = "done"
  /\ Cardinality(DOMAIN cache) >= 2
  /\ health.seen = DOMAIN cache

\* Thread t has returned a bundle from a call (getOrLoad or tryGet).
GotBundle(t) == thr[t].pc = "idle" /\ thr[t].op # "" /\ ~thr[t].raised

\* C24: a call of _get_cached_model changes neither the cache nor the
\* number of create_model invocations; it reports absent (KeyError) exactly
\* when the key has no entry and returns the entry otherwise; every call,
\* getOrLoad or tryGet, that returns a bundle for a key returns the bundle
\* the cache holds for it, and no load is started for a key that has one.
C24_TryGetReadOnly ==
  /\ [][\A t \in Threads :
          /\ (thr'[t].op = "get" /\ thr'[t] # thr[t]) =>
               (cache' = cache /\ loads' = loads /\ fails' = fails)
          /\ (thr[t].op = "get" /\ thr[t].pc = "wait" /\ thr'[t].pc = "idle") =>
               LET k == ModelKey(thr[t].path) IN
               /\ thr'[t].raised <=> k \notin DOMAIN cache
               /\ k \in DOMAIN cache => thr'[t].ret = cache[k]
               /\ k \notin DOMAIN cache => thr'[t].ret = NoBundle]_vars
  /\ [](\A t \in Threads :
          GotBundle(t) =>
            /\ ModelKey(thr[t].path) \in DOMAIN cache
            /\ thr[t].ret = cache[ModelKey(thr[t].path)])
  /\ [][\A k \in Keys : k \in DOMAIN cache => loads'[k] = loads[k]]_vars

\* After a getOrLoad that returned, a tryGet of another thread for the same
\* key has returned the same bundle, with one create_model invocation; that
\* thread's earlier tryGet had found no entry.
C24_Witness ==
  \E t1, t2 \in Threads :
    /\ t1 # t2
    /\ GotBundle(t1) /\ thr[t1].op = "load"
    /\ GotBundle(t2) /\ thr[t2].op = "get" /\ thr[t2].calls = 2
    /\ thr[t1].path = thr[t2].path
    /\ thr[t1].ret = thr[t2].ret
    /\ loads[ModelKey(thr[t1].path)] = 1

\* C25: no request holds the cache lock while its inference is running or
\* its handler awaits it: the lock is taken only inside the cache
\* primitives, which have returned before the upload is read.
C25_LockNotHeldWhileTranscribing ==
  \A r \in Reqs :
    (req[r].pc \in {"reading", "transcribing", "inferred"} \/ req[r].running)
      => lock # ReqThread(r)

\* Two requests are Transcribing at once, each with its inference running on
\* a worker thread, one of them having loaded its model under the lock.
C25_Witness ==
  \E r1, r2 \in Reqs :
    /\ r1 # r2
    /\ req[r1].pc = "transcribing" /\ req[r1].running
    /\ req[r2].pc = "transcribing" /\ req[r2].running
    /\ req[r1].loadCalls + req[r2].loadCalls >= 1
    /\ lock = Free

\* Thread u holds the lock while its create_model call for a key other
\* than k is in progress.
LoadingOther(u, k) ==
  /\ lock = CallThread(u)
  /\ thr[u].pc = "creating"
  /\ ModelKey(thr[u].path) # k

\* C26: a call (getOrLoad or tryGet) that has reached the lock for a key
\* already in the cache is never kept from acquiring it by another thread's
\* load of a different key.
C26_CachedLookupNeverWaits ==
  \A t \in Threads :
    (thr[t].pc = "wait" /\ ModelKey(thr[t].path) \in DOMAIN cache)
      => \A u \in Threads \ {t} : ~LoadingOther(u, ModelKey(thr[t].path))

\* C27: the lock is held only by a thread whose create_model call is in
\* progress, so it is free whenever every thread is idle or waiting for it;
\* the step that ends a create_model call, by return or by exception,
\* releases it, and after an exception the key has no entry.
C27_LockReleasedOnEveryPath ==
  /\ [](\A t \in Threads : lock = CallThread(t) => thr[t].pc = "creating")
  /\ []((\A t \in Threads : thr[t].pc \in {"idle", "wait", "unlocked"})
          => lock = Free)
  /\ []((\E t \in Threads : thr[t].pc = "wait" /\ lock # Free)
          => \E u \in Threads : thr[u].pc = "creating" /\ lock = CallThread(u))
  /\ [][\A t \in Threads :
          (thr[t].pc = "creating" /\ thr'[t].pc # "creating") =>
            /\ lock' = Free
            /\ thr'[t].raised =>
                 (ModelKey(thr[t].path) \notin DOMAIN cache' /\ cache' = cache)]_vars

\* A load of a key raised, and a later getOrLoad of the same key by the
\* same thread took the lock again, loaded the model and returned it.
C27_Witness ==
  \E t \in Threads :
    /\ GotBundle(t) /\ thr[t].op = "load" /\ thr[t].calls = 2
    /\ fails[ModelKey(thr[t].path)] = 1
    /\ loads[ModelKey(thr[t].path)] = 2
    /\ \A u \in Threads \ {t} : thr[u].calls = 0
    /\ lock = Free

\* The store after the add calls of `added` ran one at a time, in order.
RECURSIVE Replay(_, _)
Replay(added, m) ==
  IF added = << >>
    THEN [latest |-> << >>, history |-> << >>]
    ELSE LET n == Len(added)
             before == Replay(SubSeq(added, 1, n - 1), m)
             h == Append(before.history, added[n])
         IN [latest |-> << added[n] >>,
             history |-> IF Len(h) > m THEN TrimHistory(h, m) ELSE h]

\* The adds that acquired the lock before the call thread t has returned from.
AddsBefore(t) == SubSeq(store.added, 1, thr[t].seen)

CallReturned(t, op) == thr[t].pc = "idle" /\ thr[t].op = op

\* C28: at most one thread is inside a method's block; whenever none is,
\* _latest and _history are what the add calls give when run one at a time
\* in the order they acquired the lock, and while no more payloads were
\* added than max_history, _history is exactly the payloads added, in
\* order; a latest() or history() call returns the copies of what the adds
\* before it in that order give; latest() returns None exactly when no add
\* came before it and otherwise the copy of the last entry that history()
\* gives at the same place in the order.
C28_StoreLinearizable ==
  /\ \A t \in Threads :
       thr[t].pc \notin {"idle", "wait"} => store.lock = t
  /\ store.lock = 0 =>
       /\ store.latest = Replay(store.added, store.max).latest
       /\ store.history = Replay(store.added, store.max).history
       /\ Len(store.added) <= store.max => store.history = store.added
  /\ \A t \in Threads :
       /\ CallReturned(t, "history") =>
            /\ thr[t].ret =
                 CopiesOf(heap, Replay(AddsBefore(t), store.max).history)
            /\ thr[t].seen <= store.max =>
                 thr[t].ret = CopiesOf(heap, AddsBefore(t))
       /\ CallReturned(t, "latest") =>
            /\ thr[t].ret = << >> <=> thr[t].seen = 0
            /\ thr[t].seen > 0 =>
                 LET h == CopiesOf(heap, Replay(AddsBefore(t), store.max).history)
                 IN  h # << >> /\ thr[t].ret = << h[Len(h)] >>

\* While one thread was inside add, another waited at the lock; both adds
\* are now complete, a latest() and a history() call have returned after
\* them, and the store holds the two payloads in lock order.
C28_Witness ==
  \E t1, t2 \in Threads :
    /\ t1 # t2
    /\ CallReturned(t1, "latest") /\ thr[t1].seen = 2
    /\ CallReturned(t2, "history") /\ thr[t2].seen = 2
    /\ store.max = 2
    /\ store.added = << "p", "q" >>
    /\ store.history = << "p", "q" >>
    /\ store.lock = 0

\* C29: every transcription request that has been received eventually
\* reaches Done, Failed, NotFound or NotReady, whatever the other requests
\* do, given that create_model and the inference return or raise and that
\* the event loop runs every handler that is ready.
C29_RequestsTerminate ==
  \A r \in Reqs : (req[r].pc # "new") ~> (req[r].pc \in Terminal)

\* Both requests have ended, one after its inference ran to the end and one
\* that loaded a model inside the request.
C29_Witness ==
  \E r1, r2 \in Reqs :
    /\ r1 # r2
    /\ req[r1].pc = "done" /\ req[r1].inferCalls = 1
    /\ req[r2].pc \in Terminal /\ req[r2].loadCalls = 1
    /\ \A r \in Reqs : req[r].pc \in Terminal /\ ~req[r].running

====
